---- MODULE Spec2Model ----
(***************************************************************************)
(* Social link prediction (SocialLinkPrediction.ipynb): the matrix index,  *)
(* the Drazin inverse, the effective resistance of a graph and the         *)
(* LinkPredictor class built on them.                                      *)
(*                                                                         *)
(* Arithmetic.  The notebook computes in IEEE doubles.  The model computes *)
(* in exact rationals and keeps every tolerance the code states            *)
(* (drazin_inverse's tol, the defaults of np.isclose and np.allclose, the  *)
(* 999 of predict_link).  Of the behaviour of doubles it keeps the         *)
(* underflow of a product to zero and the loss of a term far below the     *)
(* other in a sum; rounding within the precision of a double and overflow  *)
(* are not modelled.                                                       *)
(*                                                                         *)
(* Matrices are functions over 0..n-1 of functions over 0..m-1, as the     *)
(* code indexes them.  A local value the code reads more than once is the  *)
(* parameter of a helper operator here.                                    *)
(***************************************************************************)
EXTENDS Integers, Sequences, FiniteSets, TLC

----------------------------------------------------------------------------
(* The code's floats.                                                        *)
(*                                                                          *)
(* A number is an exact rational <<n, d>>, d > 0, in lowest terms, or, when *)
(* it is too small for that, a scaled rational <<n, d, e>> standing for     *)
(* (n/d) * 2^e.  A product too small for a double underflows to zero, and a *)
(* sum drops a term below the precision of a double.                        *)

Abs(x) == IF x < 0 THEN -x ELSE x

RECURSIVE GCD(_, _)
GCD(a, b) == IF b = 0 THEN a ELSE GCD(b, a % b)

RECURSIVE Pow2(_)
Pow2(k) == IF k = 0 THEN 1 ELSE 2 * Pow2(k - 1)

Reduce(n, d, g) == <<n \div g, d \div g>>

\* n/d in lowest terms, for d > 0
Rat(n, d) == Reduce(n, d, GCD(Abs(n), d))

Zero == <<0, 1>>
One == <<1, 1>>
FromInt(i) == <<i, 1>>

\* x + y over the common denominator l
QAddOver(x, y, l) == Rat(x[1] * (l \div x[2]) + y[1] * (l \div y[2]), l)

QAdd(x, y) ==
    IF x[2] = 1 /\ y[2] = 1 THEN <<x[1] + y[1], 1>>
    ELSE QAddOver(x, y, (x[2] \div GCD(x[2], y[2])) * y[2])

QMulBy(x, y, g1, g2) ==
    <<(x[1] \div g1) * (y[1] \div g2), (x[2] \div g2) * (y[2] \div g1)>>

QMul(x, y) ==
    IF x[1] = 0 \/ y[1] = 0 THEN Zero
    ELSE QMulBy(x, y, GCD(Abs(x[1]), y[2]), GCD(Abs(y[1]), x[2]))

QInv(x) == IF x[1] < 0 THEN <<-x[2], -x[1]>> ELSE <<x[2], x[1]>>

\* x <= y, by comparing integer parts and then the reciprocals of the fractional
\* parts, so that no product of a numerator and a denominator is formed
RECURSIVE QLe(_, _)
QLe(x, y) ==
    IF x[1] \div x[2] # y[1] \div y[2] THEN x[1] \div x[2] < y[1] \div y[2]
    ELSE IF x[1] % x[2] = 0 THEN TRUE
    ELSE IF y[1] % y[2] = 0 THEN FALSE
    ELSE QLe(<<y[2], y[1] % y[2]>>, <<x[2], x[1] % x[2]>>)

\* float64: a magnitude of at most 2^DoubleMinExp rounds to zero (half the
\* least subnormal, 2^-1074), and the significand holds DoubleDigits bits
DoubleMinExp == -1075
DoubleDigits == 53
Exp(x) == IF Len(x) = 3 THEN x[3] ELSE 0
Mant(x) == <<x[1], x[2]>>
Ordinary(x, y) == Len(x) = 2 /\ Len(y) = 2

\* n/d <= 2^k, for n, d > 0; numerators and denominators are below 2^31
BelowPow2(n, d, k) ==
    IF k >= 31 THEN TRUE
    ELSE IF k <= -31 THEN FALSE
    ELSE IF k >= 0 THEN (n \div Pow2(k)) + (IF n % Pow2(k) = 0 THEN 0 ELSE 1) <= d
    ELSE n <= d \div Pow2(-k)

\* the double nearest to m * 2^e, where rounding is to zero or not at all
Scaled(m, e) ==
    IF m[1] = 0 THEN Zero
    ELSE IF e = 0 THEN m
    ELSE IF BelowPow2(Abs(m[1]), m[2], DoubleMinExp - e) THEN Zero
    ELSE <<m[1], m[2], e>>

\* m * 2^k, for k >= 0
Shift(m, k) == QMul(m, <<Pow2(k), 1>>)

\* x + y where x has the larger exponent: y is lost when it is below the last
\* bit of x
FAddTo(x, y, k) ==
    IF k > DoubleDigits + 62 THEN x
    ELSE Scaled(QAdd(Shift(Mant(x), k), Mant(y)), Exp(y))

FAdd(x, y) ==
    IF x[1] = 0 THEN y
    ELSE IF y[1] = 0 THEN x
    ELSE IF Exp(x) = Exp(y) THEN Scaled(QAdd(Mant(x), Mant(y)), Exp(x))
    ELSE IF Exp(x) > Exp(y) THEN FAddTo(x, y, Exp(x) - Exp(y))
    ELSE FAddTo(y, x, Exp(y) - Exp(x))

RAdd(x, y) == IF Ordinary(x, y) THEN QAdd(x, y) ELSE FAdd(x, y)

RNeg(x) == [x EXCEPT ![1] = -x[1]]
RSub(x, y) == RAdd(x, RNeg(y))

RMul(x, y) ==
    IF Ordinary(x, y) THEN QMul(x, y)
    ELSE Scaled(QMul(Mant(x), Mant(y)), Exp(x) + Exp(y))

RInv(x) == IF Len(x) = 2 THEN QInv(x) ELSE Scaled(QInv(Mant(x)), -Exp(x))
RDiv(x, y) == RMul(x, RInv(y))
RAbs(x) == [x EXCEPT ![1] = Abs(x[1])]

Sign(x) == IF x[1] > 0 THEN 1 ELSE IF x[1] < 0 THEN -1 ELSE 0

\* x <= y for x, y > 0 where y has the larger exponent, by k
PosLeUp(x, y, k) == IF k >= 62 THEN TRUE ELSE QLe(Mant(x), Shift(Mant(y), k))
\* x <= y for x, y > 0 where x has the larger exponent, by k
PosLeDown(x, y, k) == IF k >= 62 THEN FALSE ELSE QLe(Shift(Mant(x), k), Mant(y))

PosLe(x, y) ==
    IF Exp(x) <= Exp(y) THEN PosLeUp(x, y, Exp(y) - Exp(x))
    ELSE PosLeDown(x, y, Exp(x) - Exp(y))

FLe(x, y) ==
    IF Sign(x) # Sign(y) THEN Sign(x) < Sign(y)
    ELSE IF Sign(x) = 0 THEN TRUE
    ELSE IF Sign(x) > 0 THEN PosLe(x, y)
    ELSE PosLe(RNeg(y), RNeg(x))

RLe(x, y) == IF Ordinary(x, y) THEN QLe(x, y) ELSE FLe(x, y)

----------------------------------------------------------------------------
(* numpy / scipy primitives the notebook calls. *)

Rows(M) == Cardinality(DOMAIN M)

\* TLC evaluates a function constructor anew at every application; comparing
\* the function makes TLC tabulate it once.  Eager(f) = f.
Eager(f) == IF f = f THEN f ELSE f

identity(n) == Eager([i \in 0..n-1 |-> [j \in 0..n-1 |-> IF i = j THEN One ELSE Zero]])
zeros(n, m) == Eager([i \in 0..n-1 |-> [j \in 0..m-1 |-> Zero]])

RECURSIVE RSum(_, _, _)
RSum(f, lo, hi) == IF lo > hi THEN Zero ELSE RAdd(f[lo], RSum(f, lo + 1, hi))

\* np.dot / @ of an n x m and an m x p matrix
dot(X, Y, n, m, p) ==
    Eager([i \in 0..n-1 |-> [j \in 0..p-1 |->
        RSum([k \in 0..m-1 |-> RMul(X[i][k], Y[k][j])], 0, m - 1)]])

sqdot(X, Y) == dot(X, Y, Rows(X), Rows(X), Rows(X))

RECURSIVE matrix_power(_, _)
matrix_power(M, k) == IF k = 0 THEN identity(Rows(M)) ELSE sqdot(M, matrix_power(M, k - 1))

msub(X, Y) == Eager([i \in DOMAIN X |-> [j \in DOMAIN X[i] |-> RSub(X[i][j], Y[i][j])]])

Minor(M, n, c) ==
    Eager([i \in 0..n-2 |-> [j \in 0..n-2 |-> M[i + 1][IF j < c THEN j ELSE j + 1]]])

\* la.det, by expansion along the first row
RECURSIVE detn(_, _)
detn(M, n) ==
    IF n = 0 THEN One
    ELSE IF n = 1 THEN M[0][0]
    ELSE RSum([c \in 0..n-1 |->
                 IF M[0][c] = Zero THEN Zero
                 ELSE RMul(IF c % 2 = 0 THEN M[0][c] ELSE RNeg(M[0][c]),
                           detn(Minor(M, n, c), n - 1))], 0, n - 1)

det(M) == detn(M, Rows(M))

\* Gauss-Jordan elimination of an m x p matrix M, from row r and column c on:
\* row i, the first with a nonzero entry in column c, is scaled to rowr, moved
\* to row r and taken off the other rows
pivot_row(M, i, c, p) == Eager([j \in 0..p-1 |-> RDiv(M[i][j], M[i][c])])

eliminate(S, rowr, m, p, r, c) ==
    Eager([k \in 0..m-1 |->
        IF k = r \/ S[k][c] = Zero THEN S[k]
        ELSE [j \in 0..p-1 |-> RSub(S[k][j], RMul(S[k][c], rowr[j]))]])

RECURSIVE rref_from(_, _, _, _, _)
rref_pivot(M, m, p, r, c, i, rowr) ==
    rref_from(eliminate([M EXCEPT ![i] = M[r], ![r] = rowr], rowr, m, p, r, c),
              m, p, r + 1, c + 1)

rref_at(M, m, p, r, c, i) == rref_pivot(M, m, p, r, c, i, pivot_row(M, i, c, p))

rref_from(M, m, p, r, c) ==
    IF r >= m \/ c >= p THEN M
    ELSE IF \A i \in r..m-1 : M[i][c] = Zero THEN rref_from(M, m, p, r, c + 1)
    ELSE rref_at(M, m, p, r, c,
                 CHOOSE i \in r..m-1 : M[i][c] # Zero /\ \A y \in r..i-1 : M[y][c] = Zero)

rref(M, m, p) == rref_from(M, m, p, 0, 0)

ZeroRow(row) == \A j \in DOMAIN row : row[j] = Zero

NonzeroRows(E) == Cardinality({i \in DOMAIN E : ~ZeroRow(E[i])})

\* np.linalg.matrix_rank of a square matrix
matrix_rank(M) == NonzeroRows(rref(M, Rows(M), Rows(M)))

augment(M, n) ==
    Eager([i \in 0..n-1 |-> [j \in 0..2*n-1 |->
        IF j < n THEN M[i][j] ELSE IF j - n = i THEN One ELSE Zero]])

right_half(E, n) == Eager([i \in 0..n-1 |-> [j \in 0..n-1 |-> E[i][j + n]]])

inv_n(M, n) == right_half(rref(augment(M, n), n, 2 * n), n)

\* la.inv of a non-singular matrix
inv(M) == inv_n(M, Rows(M))

\* np.hstack of an n x a and an n x b matrix
hstack(X, Y, n, a, b) ==
    Eager([i \in 0..n-1 |-> [j \in 0..a+b-1 |-> IF j < a THEN X[i][j] ELSE Y[i][j - a]]])

\* M[:a, :b]
block(M, a, b) == Eager([i \in 0..a-1 |-> [j \in 0..b-1 |-> M[i][j]]])

\* np.diag of a square matrix
diag(M) == Eager([i \in DOMAIN M |-> M[i][i]])

\* rtol and atol of np.isclose and np.allclose (numpy's defaults)
np_rtol == <<1, 100000>>
np_atol == <<1, 100000000>>

isclose(a, b) == RLe(RAbs(RSub(a, b)), RAdd(np_atol, RMul(np_rtol, RAbs(b))))

allclose(X, Y) == \A i \in DOMAIN X : \A j \in DOMAIN X[i] : isclose(X[i][j], Y[i][j])

----------------------------------------------------------------------------
(* index *)

RECURSIVE index_loop(_, _, _, _)
\* one pass of the while loop, AAk = np.dot(A,Ak)
index_pass(A, Ak, AAk, k, n) ==
    IF matrix_rank(Ak) = matrix_rank(AAk) THEN k ELSE index_loop(A, AAk, k + 1, n)

index_loop(A, Ak, k, n) ==
    IF k <= n THEN index_pass(A, Ak, sqdot(A, Ak), k, n) ELSE k

index(A) ==
    IF ~isclose(det(A), Zero) THEN 0
    ELSE index_loop(A, A, 1, Rows(A))

----------------------------------------------------------------------------
(* is_drazin *)

is_drazin(A, Ad, k) ==
    /\ allclose(sqdot(A, Ad), sqdot(Ad, A))
    /\ allclose(sqdot(matrix_power(A, k + 1), Ad), matrix_power(A, k))
    /\ allclose(sqdot(sqdot(Ad, A), Ad), Ad)

----------------------------------------------------------------------------
(* drazin_inverse *)

\* tol=1e-4, the default of drazin_inverse
drazin_tol == <<1, 10000>>

RowSums(A, n) == Eager([i \in 0..n-1 |-> RSum([j \in 0..n-1 |-> RAbs(A[i][j])], 0, n - 1)])

Largest(s) == IF DOMAIN s = {} THEN Zero
              ELSE s[CHOOSE i \in DOMAIN s : \A j \in DOMAIN s : RLe(s[j], s[i])]

\* the largest absolute row sum of A: no eigenvalue of A exceeds it in magnitude
NormInf(A) == Largest(RowSums(A, Rows(A)))

\* Whether every eigenvalue x of A has abs(x) <= tol, for the matrices of this
\* model:
\*   - NormInf(A) <= tol: every eigenvalue is within tol;
\*   - otherwise A is an n x n matrix of whole numbers.  The product of its
\*     nonzero eigenvalues is a nonzero whole number and none exceeds NormInf(A),
\*     so a nonzero eigenvalue is at least 1 / NormInf(A)^(n-1) in magnitude,
\*     which is above tol for the matrices tried: only its zero eigenvalues
\*     are within tol.
SpectrumBelowTol(A) == RLe(NormInf(A), drazin_tol)

\* the column each nonzero row of a reduced matrix E leads with
PivotCols(E, n) ==
    {c \in 0..n-1 : \E r \in 0..n-1 :
        /\ E[r][c] # Zero
        /\ \A j \in 0..c-1 : E[r][j] = Zero}

RECURSIVE SetToSeq(_)
SetToSeq(S) ==
    IF S = {} THEN << >>
    ELSE SetToSeq(S \ {CHOOSE a \in S : \A b \in S : b <= a})
         \o <<CHOOSE a \in S : \A b \in S : b <= a>>

Columns(M, cols, n) == Eager([c \in 1..Len(cols) |-> [i \in 0..n-1 |-> M[i][cols[c]]]])

\* a basis of the column space of the n x n matrix M: its pivot columns
ColumnSpace(M, n) == Columns(M, SetToSeq(PivotCols(rref(M, n, n), n)), n)

null_vectors(E, P, piv, free, n) ==
    Eager([f \in 1..Len(free) |-> [i \in 0..n-1 |->
        IF i = free[f] THEN One
        ELSE IF i \in P
             THEN RNeg(E[(CHOOSE r \in 1..Len(piv) : piv[r] = i) - 1][free[f]])
             ELSE Zero]])

null_of_reduced(E, P, n) == null_vectors(E, P, SetToSeq(P), SetToSeq((0..n-1) \ P), n)

null_of(E, n) == null_of_reduced(E, PivotCols(E, n), n)

\* a basis of the null space of the n x n matrix M: one vector per free column
NullSpace(M, n) == null_of(rref(M, n, n), n)

UnitVectors(n) == Eager([c \in 1..n |-> [i \in 0..n-1 |-> IF i = c - 1 THEN One ELSE Zero]])

AsColumns(sel, n) ==
    [Q |-> Eager([i \in 0..n-1 |-> [j \in 0..Len(sel)-1 |-> sel[j + 1][i]]]),
     sdim |-> Len(sel)]

\* The invariant subspace of the eigenvalues x of A with abs(x) > tol (sort f)
\* and of those with abs(x) <= tol (sort g), as a sequence of basis vectors:
\* the column space and the null space of A^n, unless every eigenvalue is
\* within tol.
InvariantSubspace(A, sort, n) ==
    IF SpectrumBelowTol(A)
    THEN (IF sort = "f" THEN << >> ELSE UnitVectors(n))
    ELSE (IF sort = "f" THEN ColumnSpace(matrix_power(A, n), n)
                        ELSE NullSpace(matrix_power(A, n), n))

\* la.schur(A, sort=f) and la.schur(A, sort=g): sdim eigenvalues satisfy the
\* sort predicate and the leading sdim columns of Q span their invariant
\* subspace.  The code reads no other column of Q (k2 = n - k1), so Q holds
\* these sdim columns; here they are a rational basis of that subspace, not
\* the orthonormal one scipy returns, which changes no value U@Z@U_inv takes.
schur(A, sort) == AsColumns(InvariantSubspace(A, sort, Rows(A)), Rows(A))

\* Z with Z[:k1,:k1] = M_inv
embed(M_inv, n, k1) ==
    Eager([i \in 0..n-1 |-> [j \in 0..n-1 |->
        IF i < k1 /\ j < k1 THEN M_inv[i][j] ELSE Zero]])

drazin_Z(V, n, k1) ==
    IF k1 # 0 THEN embed(inv(block(V, k1, k1)), n, k1) ELSE zeros(n, n)

drazin_product(A, n, k1, U, U_inv) ==
    sqdot(sqdot(U, drazin_Z(sqdot(sqdot(U_inv, A), U), n, k1)), U_inv)

drazin_with(A, n, k1, U) == drazin_product(A, n, k1, U, inv(U))

drazin_schur(A, n, S1, S2) ==
    drazin_with(A, n, S1.sdim, hstack(S1.Q, S2.Q, n, S1.sdim, n - S1.sdim))

drazin_inverse(A) == drazin_schur(A, Rows(A), schur(A, "f"), schur(A, "g"))

----------------------------------------------------------------------------
(* effective_resistance *)

drop_diagonal(A, n) == Eager([i \in 0..n-1 |-> [j \in 0..n-1 |-> IF i = j THEN Zero ELSE A[i][j]]])

column_sums(m, n) == Eager([j \in 0..n-1 |-> RSum([i \in 0..n-1 |-> m[i][j]], 0, n - 1)])

laplacian_of(m, w, n) ==
    Eager([i \in 0..n-1 |-> [j \in 0..n-1 |-> IF i = j THEN w[i] ELSE RNeg(m[i][j])]])

laplacian_dense(m, n) == laplacian_of(m, column_sums(m, n), n)

\* csg.laplacian of a dense array: the diagonal is dropped, the degrees are the
\* column sums, L = D - A
csg_laplacian(A) == laplacian_dense(drop_diagonal(A, Rows(A)), Rows(A))

\* Lcopy[j] = I[j]
grounded(L, j, n) == [L EXCEPT ![j] = [c \in 0..n-1 |-> IF c = j THEN One ELSE Zero]]

resistance_rows(L, n) ==
    msub(Eager([j \in 0..n-1 |-> diag(drazin_inverse(grounded(L, j, n)))]), identity(n))

effective_resistance(A) == resistance_rows(csg_laplacian(A), Rows(A))

----------------------------------------------------------------------------
(* LinkPredictor *)

VARIABLES
    names_list,   \* self.names_list: the name pairs read from the file
    index_dict,   \* self.index_dict: name -> index
    name_dict,    \* self.name_dict: index -> name
    A,            \* self.A: the adjacency matrix (whole numbers)
    R,            \* self.R: the effective resistance matrix
    adds,         \* number of add_link calls that did not raise
    ret,          \* what the last call returned: << >> (None), <<name>>, <<name1, name2>>
    raised,       \* "none", or the exception the last call raised
    mA,           \* the matrix handed to index / drazin_inverse / is_drazin
    mk,           \* index(mA), once computed
    mAd,          \* drazin_inverse(mA), once computed
    mok           \* is_drazin(mA, mAd, mk), once computed

vars == <<names_list, index_dict, name_dict, A, R, adds, ret, raised, mA, mk, mAd, mok>>
self == <<names_list, index_dict, name_dict, A, R>>
matrix_vars == <<mA, mk, mAd, mok>>

\* Bounds of the model
MaxPairs == 2
MaxAdds == 2

\* The names a file may hold, in the order the constructor meets them: names
\* are opaque dictionary keys, so a file is taken up to renaming.
NameOrder == <<"a", "b", "c", "d">>
PairNames == {NameOrder[i] : i \in 1..Len(NameOrder)}
\* The names a caller may pass: those, and one that no file holds.
CallNames == PairNames \cup {"zed"}

EmptyFcn == [x \in {} |-> x]

\* lines 467-470 and 472-475: a name not yet a key gets the next index
add_name(d, name) ==
    IF name \notin DOMAIN d.index_dict
    THEN [index_dict |-> d.index_dict @@ (name :> d.i),
          name_dict |-> d.name_dict @@ (d.i :> name),
          i |-> d.i + 1]
    ELSE d

\* the pass over the pairs as it would be were the second name looked at first
RECURSIVE scan_names_second_first(_, _, _)
scan_names_second_first(ff, p, d) ==
    IF p > Len(ff) THEN d
    ELSE scan_names_second_first(ff, p + 1, add_name(add_name(d, ff[p][2]), ff[p][1]))

\* lines 458-475: one pass over the pairs, first name before second
RECURSIVE scan_names(_, _, _)
scan_names(ff, p, d) ==
    IF p > Len(ff) THEN d
    ELSE scan_names(ff, p + 1, add_name(add_name(d, ff[p][1]), ff[p][2]))

build_dicts(ff) == scan_names(ff, 1, [index_dict |-> EmptyFcn, name_dict |-> EmptyFcn, i |-> 0])

\* lines 485-486: A[ind1,ind2] += 1 and then A[ind2,ind1] += 1
connect_back(M1, ind1, ind2) == [M1 EXCEPT ![ind2][ind1] = @ + 1]

\* the two increments as they would be were the second forgotten
connect_one_way(M, ind1, ind2) == [M EXCEPT ![ind1][ind2] = @ + 1]

connect(M, ind1, ind2) == connect_back([M EXCEPT ![ind1][ind2] = @ + 1], ind1, ind2)

\* lines 477-486
RECURSIVE build_adjacency(_, _, _, _)
build_adjacency(ff, p, idx, M) ==
    IF p > Len(ff) THEN M
    ELSE build_adjacency(ff, p + 1, idx, connect(M, idx[ff[p][1]], idx[ff[p][2]]))

asfloat(M) == Eager([i \in DOMAIN M |-> [j \in DOMAIN M[i] |-> FromInt(M[i][j])]])

int_zeros(n) == [i \in 0..n-1 |-> [j \in 0..n-1 |-> 0]]

construct_graph(ff, d, Adj) ==
    [names_list |-> ff,
     index_dict |-> d.index_dict,
     name_dict |-> d.name_dict,
     A |-> Adj,
     R |-> effective_resistance(asfloat(Adj))]

construct_dicts(ff, d) ==
    construct_graph(ff, d,
        build_adjacency(ff, 1, d.index_dict, int_zeros(Cardinality(DOMAIN d.index_dict))))

\* LinkPredictor.__init__ on the parsed file ff
Construct(ff) == construct_dicts(ff, build_dicts(ff))

\* 999 of line 514
LARGE == 999

\* R_mute as it would be were only the diagonal muted
R_mute_diagonal_only(Adj, Res) ==
    Eager([i \in DOMAIN Adj |-> [j \in DOMAIN Adj |->
        RAdd(FromInt((IF i = j THEN 1 ELSE 0) * LARGE), Res[i][j])]])

\* line 514: R_mute = (self.A+np.identity(self.A.shape[0]))*999 + self.R
R_mute(Adj, Res) ==
    Eager([i \in DOMAIN Adj |-> [j \in DOMAIN Adj |->
        RAdd(FromInt((Adj[i][j] + (IF i = j THEN 1 ELSE 0)) * LARGE), Res[i][j])]])

\* ndarray.argmin of the flattened n x n matrix: the first position, in
\* row-major order, of a least entry
argmin_flat(M, n) ==
    CHOOSE p \in 0..n*n-1 :
        /\ \A q \in 0..n*n-1 : RLe(M[p \div n][p % n], M[q \div n][q % n])
        /\ \A q \in 0..p-1 : ~RLe(M[q \div n][q % n], M[p \div n][p % n])

\* np.argmin of a row
argmin_row(row, n) ==
    CHOOSE p \in 0..n-1 :
        /\ \A q \in 0..n-1 : RLe(row[p], row[q])
        /\ \A q \in 0..p-1 : ~RLe(row[q], row[p])

\* np.unravel_index and lines 522-523
name_pair(p, n, names) == <<names[p \div n], names[p % n]>>

\* predict_link(): lines 514-523
predict_pair(Adj, Res, names) ==
    name_pair(argmin_flat(R_mute(Adj, Res), Rows(Adj)), Rows(Adj), names)

\* predict_link(node): lines 514 and 534-542, for a node of the graph
predict_friend(Adj, Res, idx, names, node) ==
    names[argmin_row(R_mute(Adj, Res)[idx[node]], Rows(Adj))]

\* add_link: lines 566-567
linked_back(M1, index1, index2) == [M1 EXCEPT ![index2][index1] = 1]

\* add_link as it would be were the weight added to, as the constructor does
linked_incremented(Adj, index1, index2) == connect(Adj, index1, index2)

\* add_link as it would be were the first node marked as well
linked_marked(Adj, index1, index2) ==
    linked_back([Adj EXCEPT ![index1][index2] = 1, ![index1][index1] = 1], index1, index2)

linked(Adj, index1, index2) == linked_back([Adj EXCEPT ![index1][index2] = 1], index1, index2)

NameLists ==
    UNION {[1..l -> PairNames \X PairNames] : l \in 1..MaxPairs}

InMeetingOrder(nd) == \A i \in DOMAIN nd : nd[i] = NameOrder[i + 1]

\* the files whose names first occur in the order of NameOrder
Files == {ff \in NameLists : InMeetingOrder(build_dicts(ff).name_dict)}

MatrixIdle == mA = << >> /\ mk = -1 /\ mAd = << >> /\ mok = "unset"

Constructed(c) ==
    /\ names_list = c.names_list
    /\ index_dict = c.index_dict
    /\ name_dict = c.name_dict
    /\ A = c.A
    /\ R = c.R

Init ==
    /\ \E ff \in Files : Constructed(Construct(ff))
    /\ adds = 0
    /\ ret = << >>
    /\ raised = "none"
    /\ MatrixIdle

\* predict_link() with node=None
PredictLink ==
    /\ ret' = predict_pair(A, R, name_dict)
    /\ raised' = "none"
    /\ UNCHANGED <<self, adds, matrix_vars>>

\* predict_link(node) as it would be were an unknown node answered with None
PredictLinkFor_silent(node) ==
    /\ IF node \notin DOMAIN index_dict
       THEN raised' = "none" /\ ret' = << >>
       ELSE raised' = "none" /\ ret' = <<predict_friend(A, R, index_dict, name_dict, node)>>
    /\ UNCHANGED <<self, adds, matrix_vars>>

\* predict_link(node)
PredictLinkFor(node) ==
    /\ IF node \notin DOMAIN index_dict
       THEN raised' = "ValueError" /\ ret' = << >>
       ELSE raised' = "none" /\ ret' = <<predict_friend(A, R, index_dict, name_dict, node)>>
    /\ UNCHANGED <<self, adds, matrix_vars>>

\* add_link(node1, node2)
AddLink(node1, node2) ==
    /\ adds < MaxAdds
    /\ ret' = << >>
    /\ IF node1 \notin DOMAIN index_dict \/ node2 \notin DOMAIN index_dict
       THEN /\ raised' = "ValueError"
            /\ UNCHANGED <<self, adds>>
       ELSE /\ raised' = "none"
            /\ A' = linked(A, index_dict[node1], index_dict[node2])
            /\ adds' = adds + 1
            /\ UNCHANGED <<names_list, index_dict, name_dict, R>>
    /\ UNCHANGED matrix_vars

Next ==
    \/ PredictLink
    \/ \E node \in CallNames : PredictLinkFor(node)
    \/ \E node1, node2 \in CallNames : AddLink(node1, node2)

Spec == Init /\ [][Next]_vars

----------------------------------------------------------------------------
(* The same class on files whose names come in any order *)

FreeNames == {"a", "b", "c"}

\* every file of at most MaxPairs pairs of these names
FreeFiles == UNION {[1..l -> FreeNames \X FreeNames] : l \in 1..MaxPairs}

InitNames ==
    /\ \E ff \in FreeFiles : Constructed(Construct(ff))
    /\ adds = 0
    /\ ret = << >>
    /\ raised = "none"
    /\ MatrixIdle

SpecNames == InitNames /\ [][Next]_vars

----------------------------------------------------------------------------
(* The notebook's test cells: is_drazin(A, drazin_inverse(A), index(A)) *)

\* Bound of the matrices tried: their dimension
MatDim == 3

FromRows(s) == [i \in 0..Len(s)-1 |-> [j \in 0..Len(s[i + 1])-1 |-> FromInt(s[i + 1][j + 1])]]

\* A_ and B_ of the test cells
A_ == FromRows(<<<<1, 3, 0, 0>>, <<0, 1, 3, 0>>, <<0, 0, 1, 3>>, <<0, 0, 0, 0>>>>)
B_ == FromRows(<<<<1, 1, 3>>, <<5, 2, 6>>, <<-2, -1, -3>>>>)

Cells(n) == (0..n-1) \X (0..n-1)

\* the n x n matrix that holds sg[c] in every cell c of S and 0 elsewhere
Sparse(n, S, sg) ==
    [i \in 0..n-1 |-> [j \in 0..n-1 |->
        IF <<i, j>> \in S THEN FromInt(sg[<<i, j>>]) ELSE Zero]]

\* the n x n matrices with entries -1, 0, 1 of which at most three are not 0
SparseMatrices(n) ==
    UNION {{Sparse(n, S, sg) : sg \in [S -> {-1, 1}]} :
              S \in {T \in SUBSET Cells(n) : Cardinality(T) <= 3}}

\* 1 x 1 matrices of a small entry: 1e-5, and 2^-600 whose square underflows
SmallMatrices ==
    {[i \in 0..0 |-> [j \in 0..0 |-> x]] : x \in {<<1, 100000>>, <<1, 1, -600>>}}

MatrixInputs == UNION {SparseMatrices(n) : n \in 1..MatDim} \cup {A_, B_} \cup SmallMatrices

LinkIdle ==
    /\ names_list = << >>
    /\ index_dict = EmptyFcn
    /\ name_dict = EmptyFcn
    /\ A = << >>
    /\ R = << >>
    /\ adds = 0
    /\ ret = << >>
    /\ raised = "none"

InitMatrix ==
    /\ mA \in MatrixInputs
    /\ mk = -1
    /\ mAd = << >>
    /\ mok = "unset"
    /\ LinkIdle

\* k = index(A)
CallIndex ==
    /\ mk = -1
    /\ mk' = index(mA)
    /\ UNCHANGED <<mA, mAd, mok, self, adds, ret, raised>>

\* Ad = drazin_inverse(A)
CallDrazin ==
    /\ mAd = << >>
    /\ mAd' = drazin_inverse(mA)
    /\ UNCHANGED <<mA, mk, mok, self, adds, ret, raised>>

\* is_drazin(A, Ad, k)
CallIsDrazin ==
    /\ mk # -1
    /\ mAd # << >>
    /\ mok = "unset"
    /\ mok' = IF is_drazin(mA, mAd, mk) THEN "True" ELSE "False"
    /\ UNCHANGED <<mA, mk, mAd, self, adds, ret, raised>>

NextMatrix == CallIndex \/ CallDrazin \/ CallIsDrazin

SpecMatrix == InitMatrix /\ [][NextMatrix]_vars

----------------------------------------------------------------------------
(* Properties *)

Nodes == DOMAIN A

\* the adjacency matrix the constructor built from the file
InitialA ==
    build_adjacency(names_list, 1, index_dict, int_zeros(Cardinality(DOMAIN index_dict)))

\* two different nodes that no link joins
Unconnected(i, j) == i # j /\ A[i][j] = 0

\* the place of entry (i,j) when the matrix is read row by row
FlatPos(i, j) == i * Cardinality(Nodes) + j

\* (i,j) is an unconnected pair of least stored resistance, and the first such
\* pair row by row
ClosestUnconnected(i, j) ==
    /\ Unconnected(i, j)
    /\ \A p, q \in Nodes :
          Unconnected(p, q) =>
              /\ RLe(R[i][j], R[p][q])
              /\ (R[p][q] = R[i][j] => FlatPos(i, j) <= FlatPos(p, q))

\* C1 - in every state reached by the constructor followed by add_link and
\* predict_link calls, the stored resistance matrix is the effective resistance
\* of the current adjacency matrix
C1_ResistanceCurrent == R = effective_resistance(asfloat(A))

C3_AddLinkSetsOne ==
    [][\A node1, node2 \in PairNames :
          (AddLink(node1, node2) /\ raised' = "none") =>
              /\ A'[index_dict[node1]][index_dict[node2]] = 1
              /\ A'[index_dict[node2]][index_dict[node1]] = 1
              /\ linked(A', index_dict[node1], index_dict[node2]) = A']_vars

\* C3 - add_link has acted on a pair that the file joined more than once: the
\* weight the constructor gave was above 1 and is 1 now
C3_WeightOverwritten ==
    /\ adds > 0
    /\ \E i, j \in Nodes : i # j /\ InitialA[i][j] > 1 /\ A[i][j] = 1

\* C4 - predict_link(node) and add_link(node1, node2) raise ValueError when a
\* name they are given is not in the graph and do not raise it otherwise, and
\* a call that raises leaves the adjacency matrix, the resistance matrix and
\* the dictionaries as they were
C4_NotFound ==
    [][/\ (raised' = "ValueError") => UNCHANGED self
       /\ \A node \in CallNames :
             IF node \notin DOMAIN index_dict
             THEN PredictLinkFor(node) => raised' = "ValueError"
             ELSE ~(raised' = "ValueError" /\ PredictLinkFor(node))
       /\ \A node1, node2 \in CallNames :
             IF node1 \notin DOMAIN index_dict \/ node2 \notin DOMAIN index_dict
             THEN AddLink(node1, node2) => raised' = "ValueError"
             ELSE ~(raised' = "ValueError" /\ AddLink(node1, node2))]_vars

\* C4 - a call has raised ValueError on a graph that add_link had changed
C4_RaisedAfterAdd == raised = "ValueError" /\ adds > 0 /\ A # InitialA

\* C5 - predict_link() returns two different names, and predict_link(node)
\* for a node of the graph returns a name other than node
C5_NoSelfLink ==
    [][/\ PredictLink => ret'[1] # ret'[2]
       /\ \A node \in PairNames :
             (PredictLinkFor(node) /\ raised' = "none") => ret' # <<node>>]_vars

\* C6 - whenever two different nodes are unconnected, predict_link() returns
\* an unconnected pair whose stored resistance is least among the unconnected
\* pairs, the first of them row by row
C6_PredictsClosestUnconnected ==
    [][(PredictLink /\ \E i, j \in Nodes : Unconnected(i, j)) =>
          ClosestUnconnected(index_dict[ret'[1]], index_dict[ret'[2]])]_vars

\* C6 - predict_link() has returned the closest unconnected pair although a
\* connected pair has a smaller stored resistance
C6_MutedPairCloser ==
    /\ Len(ret) = 2
    /\ ClosestUnconnected(index_dict[ret[1]], index_dict[ret[2]])
    /\ \E p, q \in Nodes :
          /\ p # q
          /\ A[p][q] > 0
          /\ ~RLe(R[index_dict[ret[1]]][index_dict[ret[2]]], R[p][q])

\* C7 - when predict_link() has returned (a, b) and add_link(a, b) follows,
\* the next predict_link() returns another pair
C7_NextPredictionDiffers ==
    [][\A a, b \in PairNames :
          (ret = <<a, b>> /\ AddLink(a, b)) =>
              predict_pair(A', R', name_dict') # <<a, b>>]_vars

\* C8 - index returns a k with 0 <= k <= n for an n x n matrix
C8_IndexWithinN == mk # -1 => (0 <= mk /\ mk <= Rows(mA))

\* C9 - for every square matrix A, is_drazin(A, drazin_inverse(A), index(A))
\* is True
C9_DrazinIdentities == mok \in {"unset", "True"}

\* C10 - no call makes an entry of the adjacency matrix smaller
C10_NeverDecremented == [][\A i, j \in Nodes : A'[i][j] >= A[i][j]]_vars

\* C11 - in every state the adjacency matrix has a zero diagonal and entries
\* that are whole numbers not below 0
C11_ZeroDiagonal ==
    /\ \A i \in Nodes : A[i][i] = 0
    /\ \A i, j \in Nodes : A[i][j] \in Nat

\* the names of the file in the order read: pair by pair, first name before
\* second
NamesRead == [k \in 1..2 * Len(names_list) |-> names_list[(k + 1) \div 2][2 - (k % 2)]]

NamesOfFile == {NamesRead[k] : k \in DOMAIN NamesRead}

\* where a name is read first
FirstRead(x) == CHOOSE k \in DOMAIN NamesRead :
                    NamesRead[k] = x /\ \A h \in 1..k-1 : NamesRead[h] # x

\* the number of names read before x is
ReadBefore(x) == Cardinality({y \in NamesOfFile : FirstRead(y) < FirstRead(x)})

\* index_dict and name_dict are inverse maps between the names of the file and
\* 0..n-1, and a name's index is its place in the order of first reading
MapsInOrder ==
    /\ DOMAIN index_dict = NamesOfFile
    /\ DOMAIN name_dict = 0..Cardinality(NamesOfFile)-1
    /\ \A x \in NamesOfFile : index_dict[x] = ReadBefore(x) /\ name_dict[index_dict[x]] = x
    /\ \A i \in DOMAIN name_dict : index_dict[name_dict[i]] = i

\* C12 - after the constructor and in every later state the two dictionaries
\* are inverse bijections between the names of the file and 0..n-1, with the
\* indices in the order in which the names are first read, and no call changes
\* them
C12_DictionariesInOrder ==
    []MapsInOrder /\ [][index_dict' = index_dict /\ name_dict' = name_dict]_vars

\* C12 - add_link has acted on a graph of three names whose file starts with
\* the name c and names the second name of its first pair again, and the maps
\* are as the file orders them: c has index 0
C12_SharedNameAfterAdd ==
    /\ adds > 0
    /\ Len(names_list) = 2
    /\ Cardinality(DOMAIN index_dict) = 3
    /\ names_list[1][1] = "c"
    /\ names_list[2][1] = names_list[1][2]
    /\ index_dict["c"] = 0
    /\ MapsInOrder

\* the number of records of the file that join names x and y, in either order
Joins(x, y) ==
    Cardinality({p \in 1..Len(names_list) :
                    {names_list[p][1], names_list[p][2]} = {x, y}})

\* C13 - after the constructor, for any two different indices i and j, entries
\* (i,j) and (j,i) are the number of records that join the names of i and j
C13_WeightsCountRecords ==
    adds = 0 =>
        \A i, j \in Nodes :
            i # j => /\ A[i][j] = Joins(name_dict[i], name_dict[j])
                     /\ A[j][i] = A[i][j]

\* C13 - the constructor has read a pair twice, once in each order, and given it
\* weight 2
C13_PairReadBothWays ==
    /\ adds = 0
    /\ Len(names_list) = 2
    /\ names_list[1][1] # names_list[1][2]
    /\ names_list[2] = <<names_list[1][2], names_list[1][1]>>
    /\ A[index_dict[names_list[1][1]]][index_dict[names_list[1][2]]] = 2

====
